---- MODULE Spec2Model ----
(***************************************************************************)
(* Model of the smartboook account service (src/app/main.py, models.py,    *)
(* database.py): the /login, /register/init, /register/confirm and         *)
(* /register handlers running as concurrent requests over one database     *)
(* behind a connection pool of size 1.                                     *)
(*                                                                         *)
(* users and pending are the COMMITTED contents of the tables "users" and  *)
(* "pending_users".  What a handler has only added to its Session lives in *)
(* the request's frame (req[r].obj) until the commit step applies it.      *)
(* A request enters the model at its first database access: what a handler *)
(* does before it (parsing, hashing, drawing the code, reading the clock)  *)
(* touches nothing shared, and the pool's 30 s checkout timeout is below   *)
(* the clock's resolution here.  A step that ends a handler includes       *)
(* get_db's db.close().                                                    *)
(*                                                                         *)
(* last is the handler step just taken, with the request it belongs to and *)
(* the response, if the step produced one.  consumed, wrongTried and       *)
(* lastInit are history variables no handler reads or writes.  Spec leaves *)
(* them empty and runs the requests concurrently, SpecConsumed does the    *)
(* same and records consumed; SpecLastInit and SpecWrongTried record       *)
(* theirs over the runs in which one request is served at a time.          *)
(*                                                                         *)
(* threads holds the mail threads init starts after its commit.  They have *)
(* no Session and share nothing with the handlers, so only SpecMail, the   *)
(* two-phase registration with its mail threads, runs them.  SpecFair and  *)
(* SpecMailFair add weak fairness on a handler's own continuation.         *)
(***************************************************************************)
EXTENDS Integers, FiniteSets, Sequences, Bags, TLC

\* ---------------------------------------------------------------- bounds
NumReq == 2          \* requests served concurrently
MaxUsers == 2        \* rows ever inserted into "users"
MaxPending == 2      \* rows ever inserted into "pending_users"
MaxTicks == 2        \* times the clock is seen to advance
NumCodes == 2        \* confirmation codes random.randint may draw

\* ------------------------------------------------------ program constants
CODE_MIN == 100000
CODE_MAX == 999999
EXPIRY_MINUTES == 10
POOL_SIZE == 1
MAX_OVERFLOW == 0

\* the clock is observed once per expiry period (minutes)
ClockStep == EXPIRY_MINUTES

Logins == {"alice", "bob"}
Mails == {"a@x.com", "b@x.com"}
\* passwords a caller may present, and those registrations are made with
Passwords == {"Secr3t!", "hunter2"}
NewPasswords == {"Secr3t!"}
Salts == {"salt1"}
Codes == {c \in CODE_MIN..(CODE_MIN + NumCodes - 1) : c <= CODE_MAX}

VARIABLES
    users,       \* table users: set of rows
    pending,     \* table pending_users: set of rows
    nextUserId,  \* autoincrement of users.user_id
    nextPendingId, \* autoincrement of pending_users.id
    now,         \* datetime.utcnow(), in minutes
    checkedOut,  \* connections of the pool that are checked out
    req,         \* bag of the frames of the handlers that are between two steps
    last,        \* the handler step just taken, and its response
    threads,     \* bag of the mail threads started, each with where it stands
    consumed,    \* history: (email, code) pairs confirmed, no init for the email since
    wrongTried,  \* history: ids of pending rows a wrong code was tried against
    lastInit     \* history: id of the pending row the last store change created;
                 \* minus that id once the next store change confirmed it; else 0

prog == <<users, pending, nextUserId, nextPendingId, now, checkedOut, req, last>>
hist == <<consumed, wrongTried, lastInit>>
vars == <<prog, threads, hist>>

\* ------------------------------------------------------------- hashing
\* bcrypt.hashpw(password, salt): the token carries the salt and a digest
\* that is a one-to-one image of (salt, password)
hash_password(password, salt) ==
    [salt |-> salt, digest |-> <<"bcrypt", salt, password>>]

\* bcrypt.checkpw(password, token): re-hash with the token's salt, compare
checkpw(password, token) ==
    hash_password(password, token.salt).digest = token.digest

\* ------------------------------------------------------------ requests
\* the request body as parsed into its schema (RegisterRequest,
\* LoginRequest, ConfirmRequest)
Body(l, p, m, c) ==
    [user_login |-> l, user_password |-> p, user_mail |-> m, code |-> c]

\* a handler between two of its steps: its request and what its Session holds
Frame(op, pc, data, obj) == [op |-> op, pc |-> pc, data |-> data, obj |-> obj]

\* the handler step taken, its request, and the response (status 0: the
\* handler has not answered yet)
Step(op, step, data, status, detail, body) ==
    [op |-> op, step |-> step, data |-> data, status |-> status,
     detail |-> detail, body |-> body]

NoStep == Step("none", "none", Body("", "", "", 0), 0, "", {})

\* what a handler step wrote to standard output, the log of the service:
\* register prints the three fields of its request before its first query
\* (lines 212-214); init prints the exception it turns into 500 (line 173)
Logged(st) ==
    IF st.op = "register" /\ st.step = "check"
    THEN {st.data.user_login, st.data.user_password, st.data.user_mail}
    ELSE IF st.op = "init" /\ st.status = 500
    THEN {"Unexpected error"}
    ELSE {}

\* the strings a response carries: its detail and the fields of its body
Returned(st) ==
    {st.detail} \cup UNION {{u.user_login, u.user_mail} : u \in st.body}

\* a request can be taken up
CanServe == BagCardinality(req) < NumReq

\* faulty variant: the pool lends a second connection
CanCheckout_TwoConnections == checkedOut < POOL_SIZE + MAX_OVERFLOW + 1

\* QueuePool(pool_size, max_overflow): a checkout succeeds while fewer than
\* pool_size + max_overflow connections are out
CanCheckout == checkedOut < POOL_SIZE + MAX_OVERFLOW

\* faulty variant: get_db lacks the finally clause
get_db_close_Leaked(out) == out

\* get_db: finally db.close() returns the connection the Session holds
get_db_close(out) == out - 1

Init ==
    /\ users = {}
    /\ pending = {}
    /\ nextUserId = 1
    /\ nextPendingId = 1
    /\ now = 0
    /\ checkedOut = 0
    /\ req = EmptyBag
    /\ last = NoStep
    /\ threads = EmptyBag
    /\ consumed = {}
    /\ wrongTried = {}
    /\ lastInit = 0

\* the clock advances
Tick ==
    /\ now + ClockStep <= MaxTicks * ClockStep
    /\ now' = now + ClockStep
    /\ last' = NoStep
    /\ UNCHANGED <<users, pending, nextUserId, nextPendingId, checkedOut, req>>

\* ---------------------------------------------------------------- login
\* the rows .filter(User.user_login == login) selects; .first() returns one
\* of them (no ORDER BY: whichever the database yields first)
UsersByLogin(us, l) == {u \in us : u.user_login = l}

UserPublic(u) ==
    [user_id |-> u.user_id, user_login |-> u.user_login, user_mail |-> u.user_mail]

\* lines 122-129: the responses login can give, as <<status, detail, body>>
LoginResponses(us, l, p) ==
    IF UsersByLogin(us, l) = {}
    THEN {<<400, "Invalid login or password", {}>>}
    ELSE {IF ~checkpw(p, user.user_password)
          THEN <<401, "Invalid password", {}>>
          ELSE <<200, "", {UserPublic(user)}>> : user \in UsersByLogin(us, l)}

\* POST /login: the query checks the connection out, the handler answers,
\* get_db closes the Session
login ==
    /\ CanServe
    /\ CanCheckout
    /\ checkedOut' = get_db_close(checkedOut + 1)
    /\ \E l \in Logins, p \in Passwords :
         \E resp \in LoginResponses(users, l, p) :
           last' = Step("login", "login", Body(l, p, "", 0), resp[1], resp[2], resp[3])
    /\ UNCHANGED <<users, pending, nextUserId, nextPendingId, now, req>>

\* -------------------------------------------------------- register/init
\* faulty variant: only user_mail is unique
UniqueViolation_MailOnly(pend, row) ==
    \E p \in pend : p.user_mail = row.user_mail

\* pending_users: user_login unique=True, user_mail unique=True
UniqueViolation(pend, row) ==
    \E p \in pend : p.user_login = row.user_login \/ p.user_mail = row.user_mail

\* lines 136-144: the PendingUser built from the request, a fresh salt, a
\* random code and the clock
PendingUser(l, p, m, s, c, t) ==
    [id |-> 0, user_login |-> l, user_password |-> hash_password(p, s),
     user_mail |-> m, confirmation_code |-> c, expires_at |-> t + EXPIRY_MINUTES]

\* POST /register/init, lines 136-146 with db.commit() succeeding: INSERT and
\* COMMIT on a connection checked out and returned inside the call
init_registration_commit ==
    /\ CanServe
    /\ CanCheckout
    /\ nextPendingId <= MaxPending
    /\ \E l \in Logins, p \in NewPasswords, m \in Mails, s \in Salts, c \in Codes :
         LET new == [PendingUser(l, p, m, s, c, now) EXCEPT !.id = nextPendingId] IN
         /\ ~UniqueViolation(pending, new)
         /\ pending' = pending \cup {new}
         /\ req' = req (+) SetToBag({Frame("init", "respond", Body(l, p, m, 0), {new})})
         /\ last' = Step("init", "commit", Body(l, p, m, 0), 0, "", {})
    /\ nextPendingId' = nextPendingId + 1
    /\ UNCHANGED <<users, nextUserId, now, checkedOut>>

\* db.commit() raises IntegrityError: rollback, 400
init_registration_IntegrityError ==
    /\ CanServe
    /\ CanCheckout
    /\ \E l \in Logins, p \in NewPasswords, m \in Mails, s \in Salts, c \in Codes :
         /\ UniqueViolation(pending, PendingUser(l, p, m, s, c, now))
         /\ last' = Step("init", "commit", Body(l, p, m, 0), 400,
                         "Login or email already in use", {})
    /\ UNCHANGED <<users, pending, nextUserId, nextPendingId, now, checkedOut, req>>

\* hashing or db.commit() raises anything else (the database cannot be
\* reached): rollback, 500
init_registration_Exception ==
    /\ CanServe
    /\ \E l \in Logins, p \in NewPasswords, m \in Mails :
         last' = Step("init", "commit", Body(l, p, m, 0), 500,
                      "Registration temporarily unavailable", {})
    /\ UNCHANGED <<users, pending, nextUserId, nextPendingId, now, checkedOut, req>>

\* lines 149-163: the response is built, the mail thread started, and the
\* acknowledgment returned
init_registration_respond ==
    /\ \E f \in BagToSet(req) :
         /\ f.op = "init" /\ f.pc = "respond"
         /\ req' = req (-) SetToBag({f})
         /\ last' = Step("init", "respond", f.data, 200, "Code sent to email", {})
    /\ UNCHANGED <<users, pending, nextUserId, nextPendingId, now, checkedOut>>

\* line 161: threading.Thread(...).start() raises (no thread can be
\* started); the row is committed already, except Exception rolls back
\* nothing and answers 500
init_registration_start_error ==
    /\ \E f \in BagToSet(req) :
         /\ f.op = "init" /\ f.pc = "respond"
         /\ req' = req (-) SetToBag({f})
         /\ last' = Step("init", "respond", f.data, 500,
                         "Registration temporarily unavailable", {})
    /\ UNCHANGED <<users, pending, nextUserId, nextPendingId, now, checkedOut>>

\* ----------------------------------------------------- register/confirm
\* faulty variant: the filter leaves the code out
MatchPending_AnyCode(pend, email, code) ==
    {p \in pend : p.user_mail = email}

\* .filter(PendingUser.user_mail == email, PendingUser.confirmation_code == code)
MatchPending(pend, email, code) ==
    {p \in pend : p.user_mail = email /\ p.confirmation_code = code}

\* pending.expires_at < datetime.utcnow()
IsExpired(p, t) == p.expires_at < t

\* the User built from a pending row or a request, as INSERTed (user_id from
\* the sequence); src is history: the id of the pending row it came from,
\* 0 if none
UserFrom(p, uid, src) ==
    [user_id |-> uid, user_login |-> p.user_login, user_password |-> p.user_password,
     user_mail |-> p.user_mail, src |-> src]

\* POST /register/confirm, lines 182-197: the query (which checks the
\* connection out), the test, and db.add(user), db.delete(pending) on the
\* Session
confirm_registration_query ==
    /\ CanServe
    /\ CanCheckout
    /\ \E m \in Mails, c \in Codes :
         LET data == Body("", "", m, c)
             found == MatchPending(pending, m, c)
             refused == Step("confirm", "query", data, 400, "Invalid or expired code", {})
         IN
         IF found = {}
         THEN /\ last' = refused
              /\ checkedOut' = get_db_close(checkedOut + 1)
              /\ req' = req
         ELSE \E p \in found :
                IF IsExpired(p, now)
                THEN /\ last' = refused
                     /\ checkedOut' = get_db_close(checkedOut + 1)
                     /\ req' = req
                ELSE /\ last' = Step("confirm", "query", data, 0, "", {})
                     /\ checkedOut' = checkedOut + 1
                     /\ req' = req (+) SetToBag({Frame("confirm", "commit", data, {p})})
    /\ UNCHANGED <<users, pending, nextUserId, nextPendingId, now>>

\* faulty variant: db.delete(pending) is missing
RowsAfterDelete_Kept(pend, p) == pend

\* faulty variant: the pending row is deleted before the commit that raises
RowsAfterRollback_Partial(rows, obj) == rows \ obj

\* what the committed transaction leaves in pending_users: DELETE of the row
RowsAfterDelete(pend, p) == {q \in pend : q.id # p.id}

\* what the committed transaction leaves in users: INSERT of the user
RowsAfterInsert(us, u) == us \cup {u}

\* what a transaction whose commit raised leaves in a table: nothing of
\* what the Session held (obj)
RowsAfterRollback(rows, obj) == rows

\* db.commit() succeeds: INSERT users and DELETE pending_users in one
\* transaction; the connection goes back to the pool; {"result": "success"}
confirm_registration_commit ==
    /\ nextUserId <= MaxUsers
    /\ \E f \in BagToSet(req) :
         /\ f.op = "confirm" /\ f.pc = "commit"
         /\ \E p \in f.obj :
              /\ users' = RowsAfterInsert(users, UserFrom(p, nextUserId, p.id))
              /\ pending' = RowsAfterDelete(pending, p)
         /\ req' = req (-) SetToBag({f})
         /\ last' = Step("confirm", "commit", f.data, 200, "success", {})
    /\ nextUserId' = nextUserId + 1
    /\ checkedOut' = get_db_close(checkedOut)
    /\ UNCHANGED <<nextPendingId, now>>

\* db.commit() raises: nothing of the transaction is applied, the exception
\* is not caught, 500
confirm_registration_commit_error ==
    /\ \E f \in BagToSet(req) :
         /\ f.op = "confirm" /\ f.pc = "commit"
         /\ users' = RowsAfterRollback(users, f.obj)
         /\ pending' = RowsAfterRollback(pending, f.obj)
         /\ req' = req (-) SetToBag({f})
         /\ last' = Step("confirm", "commit", f.data, 500, "Internal Server Error", {})
    /\ checkedOut' = get_db_close(checkedOut)
    /\ UNCHANGED <<nextUserId, nextPendingId, now>>

\* ------------------------------------------------------------- register
\* .filter(User.user_mail == mail)
UsersByMail(us, m) == {u \in us : u.user_mail = m}

\* POST /register, lines 216-234: the two duplicate queries (the first
\* checks the connection out), the hash, db.add(db_user)
register_check ==
    /\ CanServe
    /\ CanCheckout
    /\ \E l \in Logins, p \in NewPasswords, m \in Mails :
         LET data == Body(l, p, m, 0) IN
         IF UsersByLogin(users, l) # {}
         THEN /\ last' = Step("register", "check", data, 400, "Login already taken", {})
              /\ checkedOut' = get_db_close(checkedOut + 1)
              /\ req' = req
         ELSE IF UsersByMail(users, m) # {}
         THEN /\ last' = Step("register", "check", data, 400, "Mail already taken", {})
              /\ checkedOut' = get_db_close(checkedOut + 1)
              /\ req' = req
         ELSE \E s \in Salts :
              /\ last' = Step("register", "check", data, 0, "", {})
              /\ checkedOut' = checkedOut + 1
              /\ req' = req (+) SetToBag({Frame("register", "commit", data,
                                 {[user_login |-> l, user_password |-> hash_password(p, s),
                                   user_mail |-> m]})})
    /\ UNCHANGED <<users, pending, nextUserId, nextPendingId, now>>

\* db.commit() succeeds: the user is inserted, the connection returned
register_commit ==
    /\ nextUserId <= MaxUsers
    /\ \E f \in BagToSet(req) :
         /\ f.op = "register" /\ f.pc = "commit"
         /\ \E u \in f.obj : users' = RowsAfterInsert(users, UserFrom(u, nextUserId, 0))
         /\ req' = (req (-) SetToBag({f})) (+)
                     SetToBag({Frame("register", "refresh", f.data, {})})
         /\ last' = Step("register", "commit", f.data, 0, "", {})
    /\ nextUserId' = nextUserId + 1
    /\ checkedOut' = checkedOut - 1
    /\ UNCHANGED <<pending, nextPendingId, now>>

\* db.commit() raises: not caught, 500
register_commit_error ==
    /\ \E f \in BagToSet(req) :
         /\ f.op = "register" /\ f.pc = "commit"
         /\ users' = RowsAfterRollback(users, f.obj)
         /\ req' = req (-) SetToBag({f})
         /\ last' = Step("register", "commit", f.data, 500, "Internal Server Error", {})
    /\ checkedOut' = get_db_close(checkedOut)
    /\ UNCHANGED <<pending, nextUserId, nextPendingId, now>>

\* lines 236-237: db.refresh(db_user) checks a connection out again, then
\* the return reads user.user_id of the RegisterRequest, which has no such
\* field: AttributeError, not caught, 500
register_refresh ==
    /\ CanCheckout
    /\ \E f \in BagToSet(req) :
         /\ f.op = "register" /\ f.pc = "refresh"
         /\ req' = req (-) SetToBag({f})
         /\ last' = Step("register", "refresh", f.data, 500, "Internal Server Error", {})
    /\ checkedOut' = get_db_close(checkedOut + 1)
    /\ UNCHANGED <<users, pending, nextUserId, nextPendingId, now>>

\* ---------------------------------------------------------- mail thread
\* a mail thread: the code and the address its closure holds (lines 155-161),
\* the id of the row they were taken from, and where the thread stands
Thread(src, code, goal_user, pc) ==
    [src |-> src, code |-> code, goal_user |-> goal_user, pc |-> pc]

\* faulty variant: the thread is started before db.commit() is known to
\* have succeeded
DispatchStarts_AtCommit(st) == st.op = "init" /\ st.step = "commit"

\* the steps at which the handler starts the mail thread: line 161, after
\* db.commit() and the building of the response, before the return
DispatchStarts(st) == st.op = "init" /\ st.step = "respond" /\ st.status = 200

\* the frames of init that the step added or removed: the request at work
InitFrames == {f \in BagToSet(req) \cup BagToSet(req') :
                 f.op = "init" /\ f.data = last'.data /\ CopiesIn(f, req) # CopiesIn(f, req')}

\* threading.Thread(target=send_in_background, daemon=True).start()
StartThread ==
    threads' =
      IF DispatchStarts(last')
      THEN threads (+) SetToBag(
             IF InitFrames = {}
             THEN {Thread(0, 0, last'.data.user_mail, "run")}
             ELSE {Thread(p.id, p.confirmation_code, p.user_mail, "run") :
                     p \in UNION {f.obj : f \in InitFrames}})
      ELSE threads

\* faulty variant: a failed dispatch takes the pending row back
RowsAfterDispatch_RolledBack(pend, t) == {p \in pend : p.id # t.src}

\* what the mail thread does to pending_users: it has no Session
RowsAfterDispatch(pend, t) == pend

\* the thread t moves to pc: it touches no table, no request and no
\* connection of the pool
ThreadStep(t, pc) ==
    /\ t.pc = "run"
    /\ threads' = (threads (-) SetToBag({t})) (+) SetToBag({[t EXCEPT !.pc = pc]})
    /\ pending' = RowsAfterDispatch(pending, t)
    /\ UNCHANGED <<users, nextUserId, nextPendingId, now, checkedOut, req, last, hist>>

\* lines 93-95: SMTP_NAME or SMTP_PASS is not set; print and return
send_verification_mail_no_credentials ==
    \E t \in BagToSet(threads) : ThreadStep(t, "nocreds")

\* lines 97-109: the message is sent
send_verification_mail_sent ==
    \E t \in BagToSet(threads) : ThreadStep(t, "sent")

\* lines 111-112 and 157-158: connecting, logging in or sending raised; the
\* exception is printed and swallowed
send_verification_mail_failed ==
    \E t \in BagToSet(threads) : ThreadStep(t, "failed")

\* ------------------------------------------------------------- history
\* the pending rows a step inserted, and those it deleted
Created == {p \in pending' : \A q \in pending : q.id # p.id}
Deleted == {p \in pending : \A q \in pending' : q.id # p.id}

\* lastInit, recorded from what a step did to the stores
ObserveLastInit ==
    /\ lastInit' =
         IF Created # {} THEN (CHOOSE p \in Created : TRUE).id
         ELSE IF users' = users /\ pending' = pending THEN lastInit
         ELSE IF lastInit > 0 /\ (\E p \in Deleted : p.id = lastInit) THEN -lastInit
         ELSE 0
    /\ UNCHANGED <<consumed, wrongTried>>

\* consumed, recorded from the steps: a confirm that answered success adds
\* its (email, code); an init that committed a row clears the email's pairs
ObserveConsumed ==
    /\ consumed' =
         IF last'.op = "confirm" /\ last'.status = 200
         THEN consumed \cup {<<last'.data.user_mail, last'.data.code>>}
         ELSE IF last'.op = "init" /\ last'.step = "commit" /\ last'.status = 0
         THEN {k \in consumed : k[1] # last'.data.user_mail}
         ELSE consumed
    /\ UNCHANGED <<wrongTried, lastInit>>

\* wrongTried, recorded from the response a step gave
ObserveWrongTried ==
    /\ wrongTried' =
         IF last'.op = "confirm" /\ last'.status = 400
         THEN wrongTried \cup
                {p.id : p \in {q \in pending : /\ q.user_mail = last'.data.user_mail
                                               /\ q.confirmation_code # last'.data.code}}
         ELSE wrongTried
    /\ UNCHANGED <<consumed, lastInit>>

\* the server takes up a request only when it is handling none
OneAtATime ==
    \/ now' # now
    \/ (req = EmptyBag \/ req' # req) /\ BagCardinality(req') <= 1

\* a step of the concurrent service; no history is recorded, and the mail
\* threads, which share nothing with the handlers, are left out
Plain(A) == A /\ UNCHANGED <<threads, hist>>

\* a step of the concurrent service, with the consumed pairs recorded
SeenConsumed(A) == A /\ ObserveConsumed /\ UNCHANGED threads

\* a step of the service handling one request at a time, with one history
SeenLastInit(A) == A /\ OneAtATime /\ ObserveLastInit /\ UNCHANGED threads
SeenWrongTried(A) == A /\ OneAtATime /\ ObserveWrongTried /\ UNCHANGED threads

\* a step of a handler of the two-phase registration, running concurrently
\* with the other handlers and with the mail threads started
WithMail(A) == A /\ StartThread /\ UNCHANGED hist

Next ==
    \/ Plain(Tick)
    \/ Plain(login)
    \/ Plain(init_registration_commit)
    \/ Plain(init_registration_IntegrityError)
    \/ Plain(init_registration_Exception)
    \/ Plain(init_registration_respond)
    \/ Plain(init_registration_start_error)
    \/ Plain(confirm_registration_query)
    \/ Plain(confirm_registration_commit)
    \/ Plain(confirm_registration_commit_error)
    \/ Plain(register_check)
    \/ Plain(register_commit)
    \/ Plain(register_commit_error)
    \/ Plain(register_refresh)

NextLastInit ==
    \/ SeenLastInit(Tick)
    \/ SeenLastInit(login)
    \/ SeenLastInit(init_registration_commit)
    \/ SeenLastInit(init_registration_IntegrityError)
    \/ SeenLastInit(init_registration_Exception)
    \/ SeenLastInit(init_registration_respond)
    \/ SeenLastInit(init_registration_start_error)
    \/ SeenLastInit(confirm_registration_query)
    \/ SeenLastInit(confirm_registration_commit)
    \/ SeenLastInit(confirm_registration_commit_error)
    \/ SeenLastInit(register_check)
    \/ SeenLastInit(register_commit)
    \/ SeenLastInit(register_commit_error)
    \/ SeenLastInit(register_refresh)

NextConsumed ==
    \/ SeenConsumed(Tick)
    \/ SeenConsumed(login)
    \/ SeenConsumed(init_registration_commit)
    \/ SeenConsumed(init_registration_IntegrityError)
    \/ SeenConsumed(init_registration_Exception)
    \/ SeenConsumed(init_registration_respond)
    \/ SeenConsumed(init_registration_start_error)
    \/ SeenConsumed(confirm_registration_query)
    \/ SeenConsumed(confirm_registration_commit)
    \/ SeenConsumed(confirm_registration_commit_error)
    \/ SeenConsumed(register_check)
    \/ SeenConsumed(register_commit)
    \/ SeenConsumed(register_commit_error)
    \/ SeenConsumed(register_refresh)

NextWrongTried ==
    \/ SeenWrongTried(Tick)
    \/ SeenWrongTried(login)
    \/ SeenWrongTried(init_registration_commit)
    \/ SeenWrongTried(init_registration_IntegrityError)
    \/ SeenWrongTried(init_registration_Exception)
    \/ SeenWrongTried(init_registration_respond)
    \/ SeenWrongTried(init_registration_start_error)
    \/ SeenWrongTried(confirm_registration_query)
    \/ SeenWrongTried(confirm_registration_commit)
    \/ SeenWrongTried(confirm_registration_commit_error)
    \/ SeenWrongTried(register_check)
    \/ SeenWrongTried(register_commit)
    \/ SeenWrongTried(register_commit_error)
    \/ SeenWrongTried(register_refresh)

NextMail ==
    \/ WithMail(Tick)
    \/ WithMail(init_registration_commit)
    \/ WithMail(init_registration_IntegrityError)
    \/ WithMail(init_registration_Exception)
    \/ WithMail(init_registration_respond)
    \/ WithMail(init_registration_start_error)
    \/ WithMail(confirm_registration_query)
    \/ WithMail(confirm_registration_commit)
    \/ WithMail(confirm_registration_commit_error)
    \/ send_verification_mail_no_credentials
    \/ send_verification_mail_sent
    \/ send_verification_mail_failed

Spec == Init /\ [][Next]_vars
SpecMail == Init /\ [][NextMail]_vars

\* a handler that holds the connection goes on to its db.commit()
HolderProceeds ==
    \/ Plain(confirm_registration_commit)
    \/ Plain(confirm_registration_commit_error)
    \/ Plain(register_commit)
    \/ Plain(register_commit_error)
SpecFair == Spec /\ WF_vars(HolderProceeds)

\* a handler that has committed goes on to line 161 and to its return or its
\* except clause; nothing is assumed of the mail threads, which may hang
InitProceeds ==
    WithMail(init_registration_respond) \/ WithMail(init_registration_start_error)
SpecMailFair == SpecMail /\ WF_vars(InitProceeds)
SpecLastInit == Init /\ [][NextLastInit]_vars
SpecConsumed == Init /\ [][NextConsumed]_vars
SpecWrongTried == Init /\ [][NextWrongTried]_vars

\* =============================================================== claims
\* an account holds the login or the email of the pending row
AccountConflict(us, p) ==
    \E u \in us : u.user_login = p.user_login \/ u.user_mail = p.user_mail

\* the step taken is a confirm call with the email and the code of row p
ConfirmOf(p) ==
    /\ last'.op = "confirm"
    /\ last'.data.user_mail = p.user_mail
    /\ last'.data.code = p.confirmation_code

\* the accounts and pending rows that carry the login or the email of p
AccountsLike(us, p) ==
    {u \in us : u.user_login = p.user_login \/ u.user_mail = p.user_mail}
PendingLike(pend, p) ==
    {q \in pend : q.user_login = p.user_login \/ q.user_mail = p.user_mail}

\* C1: when init created pending row p while no account held its login or
\* email, and the next store change is a confirm with p's email and code,
\* then that confirm is accepted if made before p expires, and its commit,
\* unless the database raises (500), answers success and leaves exactly one
\* account with p's login and email and no pending row with either.
C1_InitThenConfirm ==
    [][\A p \in pending :
         (ConfirmOf(p) /\ p.id = lastInit /\ ~AccountConflict(users, p)) =>
           /\ (last'.step = "query" /\ now < p.expires_at) => last'.status = 0
           /\ last'.step = "commit" =>
                \/ last'.status = 500
                \/ /\ last'.status = 200
                   /\ \E u \in users' :
                        /\ u.user_login = p.user_login /\ u.user_mail = p.user_mail
                        /\ AccountsLike(users', p) = {u}
                   /\ PendingLike(pending', p) = {}]_vars

\* C1 witness: the confirm that followed an init at once has succeeded, and
\* the account made from that row is the only one with its login or email
C1_Witness ==
    /\ lastInit < 0
    /\ last.op = "confirm" /\ last.status = 200
    /\ \E u \in users : u.src = -lastInit /\ AccountsLike(users, u) = {u}
    /\ \A q \in pending : q.user_mail # last.data.user_mail

\* C2: no two accounts share a login, and no two share an email.
C2_AccountsUnique ==
    \A u, v \in users :
      u # v => u.user_login # v.user_login /\ u.user_mail # v.user_mail

\* C3: a confirm with the email and code of a pending row made at or after
\* the row's expires_at is refused with 400 and creates no account.
C3_ExpiredRefused ==
    [][\A p \in pending :
         (ConfirmOf(p) /\ last'.step = "query" /\ now >= p.expires_at) =>
           last'.status = 400 /\ users' = users]_vars

\* C4: a confirm with the email of a pending row and another code is
\* refused (400) and changes neither store; and a confirm with the right
\* code for a row a wrong code was tried against is still accepted before
\* the row expires, and its commit, unless the database raises (500),
\* answers success, inserts the account and removes the row.
C4_WrongCodeKeepsPending ==
    [][\A p \in pending :
         /\ (/\ last'.op = "confirm"
             /\ last'.data.user_mail = p.user_mail
             /\ last'.data.code # p.confirmation_code)
            => last'.status = 400 /\ users' = users /\ pending' = pending
         /\ (ConfirmOf(p) /\ p.id \in wrongTried) =>
              /\ (last'.step = "query" /\ now < p.expires_at) => last'.status = 0
              /\ last'.step = "commit" =>
                   \/ last'.status = 500
                   \/ /\ last'.status = 200
                      /\ \E u \in users' : u.src = p.id /\ u.user_mail = p.user_mail
                      /\ p \notin pending']_vars

\* C4 witness: a row a wrong code was tried against has been confirmed
C4_Witness ==
    /\ last.op = "confirm" /\ last.status = 200
    /\ \E u \in users : u.src \in wrongTried /\ u.user_mail = last.data.user_mail

\* C5: once a confirm with (email, code) has succeeded, and until an init
\* for that email commits a row, every confirm with the same (email, code)
\* is refused with 400 and changes neither store.
C5_NoReplay ==
    [][(last'.op = "confirm" /\ <<last'.data.user_mail, last'.data.code>> \in consumed)
         => last'.status = 400 /\ users' = users /\ pending' = pending]_vars

\* C5 witness: a consumed (email, code) has been presented again and refused
C5_Witness ==
    /\ last.op = "confirm" /\ last.status = 400
    /\ <<last.data.user_mail, last.data.code>> \in consumed

\* C6: in every reachable state, for every pending row ever inserted, an
\* account made from it exists exactly if the row is gone.
C6_ConfirmAtomic ==
    \A id \in 1..(nextPendingId - 1) :
      (\E u \in users : u.src = id) <=> ~(\E p \in pending : p.id = id)

\* C6 witness: the commit of a confirm has raised; the row is still pending
\* and no account was made from it
C6_Witness ==
    /\ last.op = "confirm" /\ last.step = "commit" /\ last.status = 500
    /\ \E p \in pending :
         /\ p.user_mail = last.data.user_mail
         /\ p.confirmation_code = last.data.code
         /\ \A u \in users : u.src # p.id

\* C7: an init whose login or email belongs to an account is refused with
\* 400 and inserts no pending row (a database failure, 500, aside).
C7_InitRejectsAccountIdentity ==
    [][(/\ last'.op = "init" /\ last'.step = "commit" /\ last'.status # 500
        /\ \E u \in users : \/ u.user_login = last'.data.user_login
                            \/ u.user_mail = last'.data.user_mail)
         => last'.status = 400 /\ pending' = pending]_vars

\* no two pending rows share a login, and no two share an email
PendingUnique(pend) ==
    \A p, q \in pend :
      p # q => p.user_login # q.user_login /\ p.user_mail # q.user_mail

\* C8: under every interleaving the pending store never holds two rows with
\* the same login nor two with the same email; an init is accepted (its row
\* committed, to be acknowledged) only when no pending row holds its login
\* or its email, and it inserts one row.
C8_PendingUnique ==
    [][/\ PendingUnique(pending')
       /\ (last'.op = "init" /\ last'.step = "commit" /\ last'.status = 0) =>
            /\ Cardinality(pending') = Cardinality(pending) + 1
            /\ \A p \in pending : /\ p.user_login # last'.data.user_login
                                  /\ p.user_mail # last'.data.user_mail
       /\ (last'.op = "init" /\ last'.status # 0) => pending' = pending]_vars

\* C8 witness: while an init for a login still awaits its acknowledgment, a
\* second init with the same login and another email has been refused
C8_Witness ==
    /\ last.op = "init" /\ last.status = 400
    /\ \E f \in BagToSet(req) :
         /\ f.op = "init" /\ f.pc = "respond"
         /\ f.data.user_login = last.data.user_login
         /\ f.data.user_mail # last.data.user_mail
    /\ Cardinality(pending) = 1

\* C9: login with an unknown login and login with a known login and a wrong
\* password give the same status and the same error detail.
C9_SameLoginError ==
    \A l1 \in Logins, l2 \in Logins, p1 \in Passwords, p2 \in Passwords :
      \A r1 \in LoginResponses(users, l1, p1), r2 \in LoginResponses(users, l2, p2) :
        (UsersByLogin(users, l1) = {} /\ UsersByLogin(users, l2) # {} /\ r2[1] # 200)
          => r1[1] = r2[1] /\ r1[2] = r2[2]

\* C10: for every account, login with its login and the password it was
\* registered with answers 200 with exactly that account's id, login and
\* email; and login changes neither store.
C10_LoginReturnsAccount ==
    [][/\ \A u \in users', p \in Passwords :
            checkpw(p, u.user_password) =>
              LoginResponses(users', u.user_login, p) = {<<200, "", {UserPublic(u)}>>}
       /\ last'.op = "login" => users' = users /\ pending' = pending]_vars

\* C11: a register whose login and email no account holds inserts exactly
\* one account with them, and the handler's answer to it is a success
\* carrying that account's user_id, user_login and user_mail.
C11_RegisterReturnsAccount ==
    [][/\ (last'.op = "register" /\ last'.step = "commit" /\ last'.status = 0) =>
            \E u \in users' :
              /\ users' = users \cup {u} /\ u \notin users
              /\ u.user_login = last'.data.user_login
              /\ u.user_mail = last'.data.user_mail
       /\ (last'.op = "register" /\ last'.step = "refresh") =>
            /\ last'.status = 200
            /\ \E u \in users' :
                 /\ u.user_login = last'.data.user_login
                 /\ u.user_mail = last'.data.user_mail
                 /\ last'.body = {UserPublic(u)}]_vars

\* the step is one of a mail thread: a thread moved, none was started
MailStep ==
    threads' # threads /\ BagCardinality(threads') = BagCardinality(threads)

\* the dispatch of the mail for row p has failed
DispatchFailed(p) ==
    \E t \in BagToSet(threads) : t.src = p.id /\ t.pc \in {"nocreds", "failed"}

\* C12: a step of a mail thread, failing or not, changes no table, no
\* request and no answer already given; and a pending row whose dispatch
\* has failed is still confirmable: a confirm with its email and code before
\* it expires is accepted, and its commit, unless the database raises (500),
\* answers success, inserts the account and removes the row.
C12_DispatchFailureKeepsPending ==
    [][/\ MailStep =>
            users' = users /\ pending' = pending /\ req' = req /\ last' = last
       /\ \A p \in pending :
            (ConfirmOf(p) /\ DispatchFailed(p)) =>
              /\ (last'.step = "query" /\ now < p.expires_at) => last'.status = 0
              /\ last'.step = "commit" =>
                   \/ last'.status = 500
                   \/ /\ last'.status = 200
                      /\ \E u \in users' : u.src = p.id /\ u.user_mail = p.user_mail
                      /\ p \notin pending']_vars

\* C12 witness: the dispatch for a row failed, the acknowledgment had been
\* given, and the row has been confirmed since
C12_Witness ==
    /\ last.op = "confirm" /\ last.status = 200
    /\ \E t \in BagToSet(threads) :
         /\ t.pc = "failed"
         /\ \E u \in users : u.src = t.src /\ u.user_mail = last.data.user_mail

\* the init that committed row id has not answered yet
InitAwaiting(id) ==
    \E f \in BagToSet(req) : f.op = "init" /\ \E p \in f.obj : p.id = id

\* the mail threads the step started
ThreadsStarted ==
    {t \in BagToSet(threads') : CopiesIn(t, threads') > CopiesIn(t, threads) /\ t.pc = "run"}

\* C13: no init that committed its row stays without an answer for ever
\* (again and again it is not awaiting one), whatever the mail threads do,
\* a thread that never ends included; and a mail thread is started only for
\* a row committed in an earlier step.
C13_AckWithoutDispatch ==
    /\ \A id \in 1..MaxPending : []<>~InitAwaiting(id)
    /\ [][\A t \in ThreadsStarted :
            t.src \in 1..(nextPendingId - 1) /\ pending' = pending]_vars

\* C13 witness: init has acknowledged while the mail thread it started is
\* still running
C13_Witness ==
    /\ last.op = "init" /\ last.step = "respond" /\ last.status = 200
    /\ \E t \in BagToSet(threads) : t.pc = "run" /\ t.goal_user = last.data.user_mail

\* the handlers in flight whose Session holds a connection
Holders ==
    {f \in BagToSet(req) : f.op \in {"confirm", "register"} /\ f.pc = "commit"}

C15_NoPlaintextPassword ==
    last.data.user_password # "" =>
      last.data.user_password \notin (Logged(last) \cup Returned(last))

\* the accounts made from pending row id, and the confirm calls in flight
\* that have found it
AccountsFrom(id) == {u \in users : u.src = id}
ConfirmsHolding(id) ==
    {f \in BagToSet(req) : f.op = "confirm" /\ \E p \in f.obj : p.id = id}

\* C16: whatever the interleaving of confirm calls, for every pending row
\* ever inserted the accounts made from it and the confirm calls that have
\* passed the check on it and not yet answered are at most one together: at
\* most one call succeeds on the row and at most one account is made of it.
C16_OneAccountPerPending ==
    \A id \in 1..(nextPendingId - 1) :
      /\ Cardinality(AccountsFrom(id)) + Cardinality(ConfirmsHolding(id)) <= 1
      /\ \A f \in ConfirmsHolding(id) : CopiesIn(f, req) = 1

\* C16 witness: a confirm with an (email, code) already confirmed has been
\* refused while another request is in flight, and one account exists for
\* the row
C16_Witness ==
    /\ last.op = "confirm" /\ last.status = 400
    /\ <<last.data.user_mail, last.data.code>> \in consumed
    /\ req # EmptyBag
    /\ \E u \in users :
         /\ u.src > 0 /\ u.user_mail = last.data.user_mail
         /\ AccountsFrom(u.src) = {u}

\* C17: a register inserts its account only while no account holds its
\* login or its email: of concurrent register calls with one login, or one
\* email, the second to pass the duplicate check does so after the first
\* has committed, and is refused.
C17_RegisterCheckThenInsert ==
    [][(last'.op = "register" /\ last'.step = "commit" /\ last'.status = 0) =>
         /\ \A u \in users : /\ u.user_login # last'.data.user_login
                             /\ u.user_mail # last'.data.user_mail
         /\ Cardinality(users') = Cardinality(users) + 1]_vars

\* C17 witness: while a register for a login has committed and not yet
\* answered, a second register with the same login has been refused
C17_Witness ==
    /\ last.op = "register" /\ last.status = 400 /\ last.detail = "Login already taken"
    /\ \E f \in BagToSet(req) :
         /\ f.op = "register" /\ f.pc = "refresh"
         /\ f.data.user_login = last.data.user_login
    /\ Cardinality(UsersByLogin(users, last.data.user_login)) = 1

\* C18: a pending row that has expired (now >= expires_at) stays in the
\* pending store at every step, no account is made from it, and every init
\* with its login or its email is refused with 400 (a database failure,
\* 500, aside).
C18_ExpiredStaysAndBlocks ==
    [][\A p \in pending :
         now >= p.expires_at =>
           /\ p \in pending'
           /\ \A u \in users' : u.src = p.id => u \in users
           /\ (/\ last'.op = "init" /\ last'.step = "commit" /\ last'.status # 500
               /\ \/ last'.data.user_login = p.user_login
                  \/ last'.data.user_mail = p.user_mail)
              => last'.status = 400 /\ pending' = pending]_vars

\* the handlers in flight that the step ended
FramesEnded == {f \in BagToSet(req) : CopiesIn(f, req') < CopiesIn(f, req)}

\* C19: a step of init or confirm that answers 400 or 500 changes neither
\* table, and the call it ends has committed nothing: no pending row
\* inserted by that init is in the store, and no account comes from one.
C19_ErrorLeavesStores ==
    [][(last'.op \in {"init", "confirm"} /\ last'.status \in {400, 500}) =>
         /\ users' = users /\ pending' = pending
         /\ \A f \in FramesEnded :
              f.op = "init" =>
                \A p \in f.obj : /\ p \notin pending'
                                 /\ \A u \in users' : u.src # p.id]_vars
====
